---- MODULE Spec2Model ----
(***************************************************************************)
(* A model of scrape_boarddoc_meetings.py: the meeting-list fetcher        *)
(* (get_boarddoc_meetings), the agenda extractor (process_boarddoc_meeting)*)
(* and the district orchestrator (process_boarddoc_district).              *)
(*                                                                         *)
(* Python values are tagged records: None is [type |-> "NoneType"], a str  *)
(* is [type |-> "str", val |-> ...], the text node bs4 hands out is        *)
(* [type |-> "NavigableString", val |-> ...].  A date string is the        *)
(* sequence of its digits; the text of an HTML element is the sequence of  *)
(* its lines.  A call that raises returns ok = FALSE and the exception.    *)
(***************************************************************************)
EXTENDS Integers, Sequences, FiniteSets, TLC

VARIABLES
    feed_in, cid_in, date_in, fetch_out, pcF,
    page_in, agenda_out, pcA,
    committee_ids, date, site, pc, k, meetings, i, agendas, returned,
    fetch_calls, fetched, agenda_calls, agenda_raised

varsF == <<feed_in, cid_in, date_in, fetch_out, pcF>>
varsA == <<page_in, agenda_out, pcA>>
varsD == <<committee_ids, date, site, pc, k, meetings, i, agendas, returned,
           fetch_calls, fetched, agenda_calls, agenda_raised>>
vars == <<varsF, varsA, varsD>>

----------------------------------------------------------------------------
(* Python values *)

None == [type |-> "NoneType"]
Str(s) == [type |-> "str", val |-> s]
NavigableString(s) == [type |-> "NavigableString", val |-> s]
Tuple(a, b) == [type |-> "tuple", val |-> <<a, b>>]

\* NavigableString subclasses str: both carry text, and == compares the text.
IsText(v) == v.type \in {"str", "NavigableString"}
PyEq(a, b) == IF IsText(a) /\ IsText(b) THEN a.val = b.val ELSE a = b

Raise(e) == [ok |-> FALSE, error |-> e, value |-> None]
Return(v) == [ok |-> TRUE, error |-> "", value |-> v]

\* int() of a string of decimal digits
RECURSIVE ParseInt(_)
ParseInt(digits) ==
    IF digits = <<>> THEN 0
    ELSE 10 * ParseInt(SubSeq(digits, 1, Len(digits) - 1)) + digits[Len(digits)]

SeqsUpTo(S, n) == UNION {[1..m -> S] : m \in 0..n}

RECURSIVE SelectRows(_, _)
SelectRows(rows, keep) ==
    IF rows = <<>> THEN <<>>
    ELSE IF keep[1] THEN <<Head(rows)>> \o SelectRows(Tail(rows), Tail(keep))
    ELSE SelectRows(Tail(rows), Tail(keep))

----------------------------------------------------------------------------
(* get_boarddoc_meetings *)

\* lines 41-49: one row per feed record; a data frame row keeps its index label
Project(feed, committee_id) ==
    [n \in 1..Len(feed) |->
        [index |-> n - 1,
         meeting_id |-> feed[n].unique,
         committee_id |-> committee_id,
         numberdate |-> feed[n].numberdate,
         name |-> feed[n].name]]

\* line 50: a frame built from an empty list has no columns
HasColumns(feed) == feed # <<>>

\* line 51
DropNa(rows) == SelectRows(rows, [n \in 1..Len(rows) |-> rows[n].meeting_id # None])

\* Series.astype(int) raises when a value is None
AsTypeIntFails(rows) == \E n \in 1..Len(rows) : rows[n].numberdate = None

DateKeepsOpen(d, dt) ==
    LET lo == dt.val[1]
        hi == dt.val[2]
    IN  IF lo.type # "str" /\ hi.type = "str" THEN ParseInt(d) < ParseInt(hi.val)
        ELSE IF lo.type = "str" /\ hi.type # "str" THEN ParseInt(d) > ParseInt(lo.val)
        ELSE ParseInt(d) > ParseInt(lo.val) /\ ParseInt(d) < ParseInt(hi.val)

\* lines 53-61: the mask of the branch taken, for one numberdate
DateKeeps(d, dt) ==
    LET lo == dt.val[1]
        hi == dt.val[2]
    IN  IF lo.type # "str" /\ hi.type = "str" THEN ParseInt(d) <= ParseInt(hi.val)
        ELSE IF lo.type = "str" /\ hi.type # "str" THEN ParseInt(d) >= ParseInt(lo.val)
        ELSE ParseInt(d) >= ParseInt(lo.val) /\ ParseInt(d) <= ParseInt(hi.val)

\* lines 52-57: some branch of the date filter is taken
Filters(dt) ==
    /\ dt.type = "tuple"
    /\ dt.val[1].type = "str" \/ dt.val[2].type = "str"

get_boarddoc_meetings(feed, committee_id, dt) ==
    IF ~HasColumns(feed) THEN Raise("KeyError")
    ELSE LET kept == DropNa(Project(feed, committee_id))
         IN  IF ~Filters(dt) THEN Return(kept)
             ELSE IF AsTypeIntFails(kept) THEN Raise("TypeError")
             ELSE Return(SelectRows(kept,
                     [n \in 1..Len(kept) |-> DateKeeps(kept[n].numberdate.val, dt)]))

----------------------------------------------------------------------------
(* Inputs of the fetcher *)

MaxFeed == 2

D20240101 == <<2, 0, 2, 4, 0, 1, 0, 1>>
D20240201 == <<2, 0, 2, 4, 0, 2, 0, 1>>
DateStrings == {D20240101, D20240201}

Committees == {"A", "B"}
MeetingIds == {"1", "2"}

FeedRecords ==
    [unique : {None} \cup {Str(m) : m \in MeetingIds},
     numberdate : {None} \cup {Str(d) : d \in DateStrings},
     name : {None, Str("Regular Meeting")}]

DateSides == {None} \cup {Str(d) : d \in DateStrings}
DateFilters == {None} \cup {Tuple(a, b) : a \in DateSides, b \in DateSides}

----------------------------------------------------------------------------
(* process_boarddoc_meeting *)

\* soup.find(...) yields None when no element matches; .string of an element
\* is a NavigableString when its only content is text and None otherwise
NoElement == [present |-> FALSE, string |-> None]
Element(str) == [present |-> TRUE, string |-> str]

\* lines 93, 94, 96: attribute access on the result of soup.find
TagString(el) == IF el.present THEN Return(el.string) ELSE Raise("AttributeError")

\* lines 96-101
Description(string) == IF string.type = "str" THEN string ELSE Str("")

\* the pattern "(?<=Subject\n).+" needs a line that ends in Subject
EndsWithSubject(line) == line \in {"Subject", "Item Subject"}

\* re.search("(?<=Subject\n).+", text): the first non-empty line that follows
\* a line ending in Subject, or None
SubjectSearch(text) ==
    LET lines == text.val
        hits == {n \in 1..(Len(lines) - 1) : EndsWithSubject(lines[n]) /\ lines[n + 1] # ""}
    IN  IF hits = {} THEN None
        ELSE Str(<<lines[(CHOOSE n \in hits : \A m \in hits : n <= m) + 1]>>)

HasAttr(el, attr) == el[attr] # None

AddLevelAlways(div, agenda_items) == TRUE

\* line 106: div.text not in agenda_items
AddLevel(div, agenda_items) ==
    \A n \in 1..Len(agenda_items) : ~PyEq(agenda_items[n], div.text)

OrderingItemText(div) == div.text

\* line 110: the match of the Subject pattern in the element's text
OrderingItem(div) == SubjectSearch(div.text)

\* lines 103-110: the scan of the div elements in document order, from element n
RECURSIVE ScanItems(_, _, _)
ScanItems(divs, n, agenda_items) ==
    IF n > Len(divs) THEN Return(agenda_items)
    ELSE LET div == divs[n]
         IN  IF HasAttr(div, "aria_level")
             THEN IF div.aria_level = Str("1") /\ AddLevel(div, agenda_items)
                  THEN ScanItems(divs, n + 1, Append(agenda_items, div.text))
                  ELSE ScanItems(divs, n + 1, agenda_items)
             ELSE IF HasAttr(div, "class") /\ "agendaorder" \in div["class"].val
             THEN IF OrderingItem(div) = None THEN Raise("TypeError")
                  ELSE ScanItems(divs, n + 1, Append(agenda_items, OrderingItem(div)))
             ELSE ScanItems(divs, n + 1, agenda_items)

\* lines 118-121, 124-126: the Subject line of the enclosing agendaorder div
ItemLabel(ancestor) ==
    IF ancestor = None THEN Raise("AttributeError")
    ELSE IF SubjectSearch(ancestor) = None THEN Raise("TypeError")
    ELSE Return(SubjectSearch(ancestor))

\* lines 114-122: the public-file divs, from element n
RECURSIVE ScanPublicFiles(_, _, _)
ScanPublicFiles(divs, n, files) ==
    IF n > Len(divs) THEN Return(files)
    ELSE LET file == divs[n].a
         IN  IF file # None /\ HasAttr(file, "href")
             THEN IF ~ItemLabel(divs[n].ancestor).ok THEN ItemLabel(divs[n].ancestor)
                  ELSE ScanPublicFiles(divs, n + 1,
                          Append(files, <<ItemLabel(divs[n].ancestor).value,
                                          file.text, file.href>>))
             ELSE ScanPublicFiles(divs, n + 1, files)

\* lines 127-131: the display name of a legacy-content link
LegacyFileName(a) ==
    LET file == a.child
    IN  IF file = None THEN Raise("AttributeError")
        ELSE IF HasAttr(file, "alt") THEN Return(file.alt)
        ELSE Return(Str(""))

\* lines 123-132: the legacy-content links, from link n
RECURSIVE ScanLegacy(_, _, _)
ScanLegacy(links, n, files) ==
    IF n > Len(links) THEN Return(files)
    ELSE IF ~ItemLabel(links[n].ancestor).ok THEN ItemLabel(links[n].ancestor)
    ELSE IF ~LegacyFileName(links[n]).ok THEN LegacyFileName(links[n])
    ELSE ScanLegacy(links, n + 1,
            Append(files, <<ItemLabel(links[n].ancestor).value,
                            LegacyFileName(links[n]).value, links[n].href>>))

process_boarddoc_meeting(page, committee_id, meeting_id) ==
    LET name == TagString(page.name_div)
        date_ == TagString(page.date_div)
        desc == TagString(page.description_div)
        items == ScanItems(page.divs, 1, <<>>)
        files_a == ScanPublicFiles(page.public_files, 1, <<>>)
        files == ScanLegacy(page.legacy_links, 1, files_a.value)
    IN  IF ~name.ok THEN name
        ELSE IF ~date_.ok THEN date_
        ELSE IF ~desc.ok THEN desc
        ELSE IF ~items.ok THEN items
        ELSE IF ~files_a.ok THEN files_a
        ELSE IF ~files.ok THEN files
        ELSE Return([meeting_id |-> meeting_id,
                     name |-> name.value,
                     date |-> date_.value,
                     description |-> Description(desc.value),
                     items |-> items.value,
                     full_text |-> page.full_text,
                     files |-> files.value])

----------------------------------------------------------------------------
(* Pages the agenda endpoint can return *)

MaxDivs == 3
MaxFiles == 2
MaxLinks == 2

Budget == Str(<<"Budget">>)
SubjectBudget == Str(<<"Subject", "Budget">>)
FileText == Str(<<"Subject", "Budget", "budget.pdf">>)

Strings == {None, NavigableString("Regular Meeting")}
HeaderElements == {NoElement} \cup {Element(str) : str \in Strings}

ClassList(c) == [type |-> "list", val |-> c]

DivElements ==
    [aria_level : {None, Str("1"), Str("2")},
     class : {None, ClassList({"agendaorder"}), ClassList({"public-file"})},
     text : {Budget, SubjectBudget}]

Ancestors == {None, Budget, FileText}

PublicFileDivs ==
    [a : {None} \cup [href : {None, Str("/files/budget.pdf")}, text : {Str(<<"budget.pdf">>)}],
     ancestor : Ancestors]

LegacyLinks ==
    [href : {Str("/legacy-content/budget.pdf")},
     ancestor : Ancestors,
     child : {None} \cup [alt : {None, Str("budget.pdf")}]]

BasePage ==
    [name_div |-> Element(NavigableString("Regular Meeting")),
     date_div |-> Element(NavigableString("Jan 1, 2024")),
     description_div |-> Element(NavigableString("Agenda")),
     divs |-> <<>>,
     full_text |-> Str(<<"Regular Meeting", "Jan 1, 2024", "Agenda">>),
     public_files |-> <<>>,
     legacy_links |-> <<>>]

HeaderPages ==
    {[BasePage EXCEPT !.name_div = n, !.date_div = d, !.description_div = e] :
        n \in HeaderElements, d \in HeaderElements, e \in HeaderElements}
ItemPages == {[BasePage EXCEPT !.divs = ds] : ds \in SeqsUpTo(DivElements, MaxDivs)}
PublicFilePages ==
    {[BasePage EXCEPT !.public_files = fs] : fs \in SeqsUpTo(PublicFileDivs, MaxFiles)}
LegacyPages ==
    {[BasePage EXCEPT !.legacy_links = ls] : ls \in SeqsUpTo(LegacyLinks, MaxLinks)}
Pages == HeaderPages \cup ItemPages \cup PublicFilePages \cup LegacyPages

----------------------------------------------------------------------------
(* One call of get_boarddoc_meetings *)

InitDistrictIdle ==
    /\ committee_ids = <<>> /\ date = None /\ site = <<>> /\ pc = "idle" /\ k = 0
    /\ meetings = <<>> /\ i = 0 /\ agendas = <<>> /\ returned = None
    /\ fetch_calls = <<>> /\ fetched = <<>> /\ agenda_calls = <<>>
    /\ agenda_raised = <<>>

InitFetchIdle ==
    /\ feed_in = <<>> /\ cid_in = "A" /\ date_in = None
    /\ fetch_out = Return(<<>>) /\ pcF = "idle"

InitAgendaIdle ==
    /\ page_in = BasePage /\ agenda_out = Return(None) /\ pcA = "idle"

InitFetch ==
    /\ feed_in \in SeqsUpTo(FeedRecords, MaxFeed)
    /\ cid_in \in {"A"}
    /\ date_in \in DateFilters
    /\ fetch_out = Return(<<>>)
    /\ pcF = "call"
    /\ InitAgendaIdle /\ InitDistrictIdle

CallFetcher ==
    /\ pcF = "call"
    /\ fetch_out' = get_boarddoc_meetings(feed_in, cid_in, date_in)
    /\ pcF' = "done"
    /\ UNCHANGED <<feed_in, cid_in, date_in, varsA, varsD>>

NextFetch == CallFetcher
SpecFetch == InitFetch /\ [][NextFetch]_vars

----------------------------------------------------------------------------
(* One call of process_boarddoc_meeting *)

InitAgenda ==
    /\ page_in \in Pages
    /\ agenda_out = Return(None)
    /\ pcA = "call"
    /\ InitFetchIdle /\ InitDistrictIdle

CallExtractor ==
    /\ pcA = "call"
    /\ agenda_out' = process_boarddoc_meeting(page_in, "A", Str("1"))
    /\ pcA' = "done"
    /\ UNCHANGED <<page_in, varsF, varsD>>

NextAgenda == CallExtractor
SpecAgenda == InitAgenda /\ [][NextAgenda]_vars

----------------------------------------------------------------------------
(* process_boarddoc_district *)

MaxListed == 2
MaxCommittees == 2

\* the meetings of the site: a meeting has one date wherever it is listed
SiteMeetings ==
    {[unique |-> Str("1"), numberdate |-> Str(D20240101), name |-> Str("Regular Meeting")],
     [unique |-> Str("2"), numberdate |-> Str(D20240201), name |-> Str("Work Session")],
     [unique |-> None, numberdate |-> Str(D20240201), name |-> None]}

Sites == [Committees -> SeqsUpTo(SiteMeetings, MaxListed)]

\* the agenda page of a meeting: well formed, or without its name element
DistrictPages == {BasePage, [BasePage EXCEPT !.name_div = NoElement]}

\* lines 163-165: the frame with the four columns and no rows
EmptyFrame == <<>>

\* lines 167-169: pd.concat appends the rows and keeps their index labels
Concat(frame, rows) == frame \o rows

DropDuplicatesKeepLast(rows) ==
    SelectRows(rows, [n \in 1..Len(rows) |->
        \A m \in (n + 1)..Len(rows) : rows[m].meeting_id # rows[n].meeting_id])

\* line 170: drop_duplicates(subset=["meeting_id"]) keeps the first row of each id
DropDuplicates(rows) ==
    SelectRows(rows, [n \in 1..Len(rows) |->
        \A m \in 1..(n - 1) : rows[m].meeting_id # rows[n].meeting_id])

\* line 171: reset_index(drop=True) relabels the rows 0, 1, 2, ...
ResetIndex(rows) == [n \in 1..Len(rows) |-> [rows[n] EXCEPT !.index = n - 1]]

\* meetings[column][label]: the value in the row that carries the label
Loc(rows, column, label) ==
    (CHOOSE r \in {rows[n] : n \in 1..Len(rows)} : r.index = label)[column]

AgendaArgsFirstRow(rows, label) ==
    <<Loc(rows, "committee_id", 0), Loc(rows, "meeting_id", 0)>>

\* line 176: the arguments of the agenda call for loop index label
AgendaArgs(rows, label) ==
    <<Loc(rows, "committee_id", label), Loc(rows, "meeting_id", label)>>

MoreCommitteesButLast(n, ids) == n < Len(ids)

\* line 166: the loop over committee_ids has an entry left
MoreCommittees(n, ids) == n <= Len(ids)

AfterAgendaSwallow(result) == "agendas"

\* lines 174-178: an exception of the agenda call leaves the function
AfterAgenda(result) == IF result.ok THEN "agendas" ELSE "raised"

InitDistrict ==
    /\ committee_ids \in SeqsUpTo(Committees, MaxCommittees)
    /\ date \in DateFilters
    /\ site \in Sites
    /\ pc = "start"
    /\ k = 1
    /\ meetings = None
    /\ i = 0
    /\ agendas = <<>>
    /\ returned = None
    /\ fetch_calls = <<>>
    /\ fetched = <<>>
    /\ agenda_calls = <<>>
    /\ agenda_raised = <<>>
    /\ InitFetchIdle /\ InitAgendaIdle

\* lines 160-161
FetchSingle ==
    /\ pc = "start"
    /\ Len(committee_ids) = 1
    /\ LET r == get_boarddoc_meetings(site[committee_ids[1]], committee_ids[1], date)
       IN  /\ fetch_calls' = Append(fetch_calls, <<committee_ids[1], date>>)
           /\ IF r.ok
              THEN /\ meetings' = r.value
                   /\ fetched' = Append(fetched, r.value)
                   /\ pc' = "dedup"
              ELSE /\ pc' = "raised"
                   /\ UNCHANGED <<meetings, fetched>>
    /\ UNCHANGED <<committee_ids, date, site, k, i, agendas, returned, agenda_calls,
                   agenda_raised, varsF, varsA>>

\* lines 162-165
StartLoop ==
    /\ pc = "start"
    /\ Len(committee_ids) > 1
    /\ meetings' = EmptyFrame
    /\ k' = 1
    /\ pc' = "fetch"
    /\ UNCHANGED <<committee_ids, date, site, i, agendas, returned, fetch_calls,
                   fetched, agenda_calls, agenda_raised, varsF, varsA>>

\* lines 166-169: one pass of the loop body
FetchNext ==
    /\ pc = "fetch"
    /\ MoreCommittees(k, committee_ids)
    /\ LET r == get_boarddoc_meetings(site[committee_ids[k]], committee_ids[k], date)
       IN  /\ fetch_calls' = Append(fetch_calls, <<committee_ids[k], date>>)
           /\ IF r.ok
              THEN /\ meetings' = Concat(meetings, r.value)
                   /\ fetched' = Append(fetched, r.value)
                   /\ k' = k + 1
                   /\ pc' = "fetch"
              ELSE /\ pc' = "raised"
                   /\ UNCHANGED <<meetings, fetched, k>>
    /\ UNCHANGED <<committee_ids, date, site, i, agendas, returned, agenda_calls,
                   agenda_raised, varsF, varsA>>

\* line 170 with an empty committee list: meetings was never assigned
Unbound ==
    /\ pc = "start"
    /\ Len(committee_ids) = 0
    /\ pc' = "raised"
    /\ UNCHANGED <<committee_ids, date, site, k, meetings, i, agendas, returned,
                   fetch_calls, fetched, agenda_calls, agenda_raised, varsF, varsA>>

\* lines 170-172
Deduplicate ==
    /\ \/ pc = "dedup"
       \/ pc = "fetch" /\ ~MoreCommittees(k, committee_ids)
    /\ meetings' = ResetIndex(DropDuplicates(meetings))
    /\ agendas' = <<>>
    /\ i' = 0
    /\ pc' = "agendas"
    /\ UNCHANGED <<committee_ids, date, site, k, returned, fetch_calls, fetched,
                   agenda_calls, agenda_raised, varsF, varsA>>

\* lines 173-178: one pass of the loop body; the page is what the site returns
ExtractAgenda ==
    /\ pc = "agendas"
    /\ i < Len(meetings)
    /\ \E page \in DistrictPages :
          LET args == AgendaArgs(meetings, i)
              r == process_boarddoc_meeting(page, args[1], args[2])
          IN  /\ agenda_calls' = Append(agenda_calls, args)
              /\ agenda_raised' = Append(agenda_raised, ~r.ok)
              /\ pc' = AfterAgenda(r)
              /\ IF r.ok
                 THEN agendas' = Append(agendas, r.value)
                 ELSE agendas' = agendas
              /\ i' = IF r.ok THEN i + 1 ELSE i
    /\ UNCHANGED <<committee_ids, date, site, k, meetings, returned, fetch_calls,
                   fetched, varsF, varsA>>

\* line 179
ReturnDistrict ==
    /\ pc = "agendas"
    /\ i >= Len(meetings)
    /\ returned' = [type |-> "tuple", val |-> <<meetings, agendas>>]
    /\ pc' = "done"
    /\ UNCHANGED <<committee_ids, date, site, k, meetings, i, agendas, fetch_calls,
                   fetched, agenda_calls, agenda_raised, varsF, varsA>>

Next ==
    \/ FetchSingle
    \/ StartLoop
    \/ FetchNext
    \/ Unbound
    \/ Deduplicate
    \/ ExtractAgenda
    \/ ReturnDistrict

Spec == InitDistrict /\ [][Next]_vars

----------------------------------------------------------------------------
(* Properties of get_boarddoc_meetings, under SpecFetch *)

Absent(dt, side) == dt.type # "tuple" \/ dt.val[side].type # "str"

\* d satisfies (from is absent or d >= from) and (to is absent or d <= to)
InRange(numberdate, dt) ==
    /\ Absent(dt, 1) \/
          (numberdate # None /\ ParseInt(numberdate.val) >= ParseInt(dt.val[1].val))
    /\ Absent(dt, 2) \/
          (numberdate # None /\ ParseInt(numberdate.val) <= ParseInt(dt.val[2].val))

\* the feed records the fetcher is to return
Wanted == {n \in 1..Len(feed_in) :
              feed_in[n].unique # None /\ InRange(feed_in[n].numberdate, date_in)}

\* C1: the list the fetcher returns holds exactly the identifier-bearing feed
\* records whose numberdate, read as an integer, lies within the sides of the
\* filter that are present, each projected record once, in feed order; with no
\* side present (or no filter) no record is removed by date.
C1_DateFilter ==
    (pcF = "done" /\ fetch_out.ok) =>
        LET rows == fetch_out.value
        IN  /\ \A j \in 1..Len(rows) :
                  /\ rows[j].index + 1 \in Wanted
                  /\ rows[j].meeting_id = feed_in[rows[j].index + 1].unique
                  /\ rows[j].numberdate = feed_in[rows[j].index + 1].numberdate
                  /\ rows[j].name = feed_in[rows[j].index + 1].name
                  /\ rows[j].committee_id = cid_in
            /\ \A j \in 1..Len(rows) : \A h \in 1..Len(rows) :
                  j < h => rows[j].index < rows[h].index
            /\ \A n \in Wanted : \E j \in 1..Len(rows) : rows[j].index + 1 = n

\* a two-sided filter kept one dated record on its boundary and removed another
C1_Witness ==
    /\ pcF = "done" /\ fetch_out.ok
    /\ ~Absent(date_in, 1) /\ ~Absent(date_in, 2)
    /\ Len(feed_in) = 2
    /\ \A n \in 1..2 : feed_in[n].unique # None
    /\ Len(fetch_out.value) = 1
    /\ fetch_out.value[1].numberdate = date_in.val[1]

\* C2: for every feed, the empty feed included, whose records all carry a
\* numberdate, the fetcher returns a list, no returned record has an absent
\* meeting_id, and every identifier-bearing record that passes the date filter
\* is in the list.
C2_Claim ==
    (pcF = "done" /\ \A n \in 1..Len(feed_in) : feed_in[n].numberdate # None) =>
        /\ fetch_out.ok
        /\ \A j \in 1..Len(fetch_out.value) : fetch_out.value[j].meeting_id # None
        /\ \A n \in Wanted :
              \E j \in 1..Len(fetch_out.value) :
                  fetch_out.value[j].meeting_id = feed_in[n].unique

----------------------------------------------------------------------------
(* Properties of process_boarddoc_meeting, under SpecAgenda *)

Extracted == pcA = "done" /\ agenda_out.ok
Items == agenda_out.value.items
Divs == page_in.divs

\* C6: with the name and date elements in place, the extractor does not fail
\* whatever the description is; the description is "" when the element is
\* absent or its content is not plain text, and is the text otherwise.
C6_Claim ==
    (pcA = "done" /\ page_in.name_div.present /\ page_in.date_div.present
        /\ page_in.divs = <<>> /\ page_in.public_files = <<>>
        /\ page_in.legacy_links = <<>>) =>
        /\ agenda_out.ok
        /\ IF page_in.description_div.present /\ IsText(page_in.description_div.string)
           THEN PyEq(agenda_out.value.description, page_in.description_div.string)
           ELSE agenda_out.value.description = Str("")

\* the elements each rule of the scan matches
LevelRule(n) == Divs[n].aria_level = Str("1")
OrderingRule(n) ==
    /\ Divs[n].aria_level = None
    /\ Divs[n]["class"] # None
    /\ "agendaorder" \in Divs[n]["class"].val

Count(seq, t) == Cardinality({n \in 1..Len(seq) : seq[n] = t})
LevelElements(t) == {n \in 1..Len(Divs) : LevelRule(n) /\ Divs[n].text = t}
OrderingElements(t) == {n \in 1..Len(Divs) : OrderingRule(n) /\ SubjectSearch(Divs[n].text) = t}
Texts ==
    ({Divs[n].text : n \in 1..Len(Divs)}
        \cup {SubjectSearch(Divs[n].text) : n \in 1..Len(Divs)}) \ {None}
Min(S) == CHOOSE n \in S : \A m \in S : n <= m

\* the element is the first in the document to put its text in the list
Contributes(n) ==
    \/ OrderingRule(n)
    \/ /\ LevelRule(n)
       /\ \A m \in 1..(n - 1) : m \notin LevelElements(Divs[n].text)
                                    \cup OrderingElements(Divs[n].text)
Contributors == {n \in 1..Len(Divs) : Contributes(n)}
ItemOf(n) == IF OrderingRule(n) THEN SubjectSearch(Divs[n].text) ELSE Divs[n].text

\* C7 as stated: the top-level elements with one text yield one item for that
\* text, whatever else the document holds, and k ordering-class elements with
\* one Subject text yield k items.
C7_Claim ==
    Extracted =>
        \A t \in Texts :
            /\ LevelElements(t) # {} =>
                  Count(Items, t) - Cardinality(OrderingElements(t)) = 1
            /\ Count(Items, t) >= Cardinality(OrderingElements(t))

\* C7 amended: the top-level elements with one text yield at most one item: one,
\* at the position of the first of them, unless an ordering-class element before
\* that first one already added the same text as its Subject, and then none;
\* k ordering-class elements with one Subject text yield k items.
C7_Amended ==
    Extracted =>
        \A t \in Texts :
            LET first == Min(LevelElements(t))
                already == \E m \in OrderingElements(t) : m < first
            IN  IF LevelElements(t) = {} THEN Count(Items, t) = Cardinality(OrderingElements(t))
                ELSE IF already THEN Count(Items, t) = Cardinality(OrderingElements(t))
                ELSE /\ Count(Items, t) = Cardinality(OrderingElements(t)) + 1
                     /\ Items[1 + Cardinality({m \in Contributors : m < first})] = t

\* three top-level elements with the same text left one item
C7_Witness ==
    /\ Extracted
    /\ Len(Divs) = 3
    /\ \A n \in 1..3 : LevelRule(n) /\ Divs[n].text = Divs[1].text
    /\ Items = <<Divs[1].text>>

\* C8: a legacy-content link inside an ordering-class ancestor that has a
\* Subject line adds one file record (label, display name, target); the name is
\* the alt text of the first child, or "" when the child has no alt or the link
\* has no child element; the extractor does not fail.
C8_Claim ==
    (pcA = "done" /\ page_in.legacy_links # <<>> /\
        \A n \in 1..Len(page_in.legacy_links) :
            /\ page_in.legacy_links[n].ancestor # None
            /\ SubjectSearch(page_in.legacy_links[n].ancestor) # None) =>
        /\ agenda_out.ok
        /\ Len(agenda_out.value.files) = Len(page_in.legacy_links)
        /\ \A n \in 1..Len(page_in.legacy_links) :
              LET a == page_in.legacy_links[n]
              IN  agenda_out.value.files[n] =
                      <<SubjectSearch(a.ancestor),
                        IF a.child # None /\ a.child.alt # None THEN a.child.alt ELSE Str(""),
                        a.href>>

\* C9 as stated: every element of the ordering class, whatever else it
\* carries, puts the text after its Subject line in the list.
C9_Claim ==
    Extracted =>
        \A t \in Texts :
            Count(Items, t) >=
                Cardinality({n \in 1..Len(Divs) :
                    /\ Divs[n]["class"] # None
                    /\ "agendaorder" \in Divs[n]["class"].val
                    /\ SubjectSearch(Divs[n].text) = t})

\* C9 amended: every ordering-class element that carries no level attribute
\* puts the text after its Subject line in the list (the extraction fails when
\* such an element has no Subject line); an element with a level attribute is
\* handled by the level rule alone; both rules fire within one document and
\* the list is in document order of discovery.
C9_Amended ==
    /\ Extracted =>
          /\ Len(Items) = Cardinality(Contributors)
          /\ \A n \in Contributors :
                Items[1 + Cardinality({m \in Contributors : m < n})] = ItemOf(n)
    /\ (pcA = "done" /\ \E n \in 1..Len(Divs) :
            OrderingRule(n) /\ SubjectSearch(Divs[n].text) = None) => ~agenda_out.ok

\* both rules fired, and an ordering-class element with a level attribute
\* added nothing
C9_Witness ==
    /\ Extracted
    /\ Len(Divs) = 3
    /\ LevelRule(1)
    /\ Divs[2].aria_level = Str("2") /\ Divs[2]["class"] = ClassList({"agendaorder"})
    /\ OrderingRule(3)
    /\ Items = <<Divs[1].text, SubjectSearch(Divs[3].text)>>

----------------------------------------------------------------------------
(* Properties of process_boarddoc_district, under Spec *)

\* the filtered lists the fetcher returned, one after the other
RECURSIVE Flatten(_)
Flatten(lists) == IF lists = <<>> THEN <<>> ELSE Head(lists) \o Flatten(Tail(lists))
Listed == Flatten(fetched)
ListedIds == {Listed[n].meeting_id : n \in 1..Len(Listed)}
FirstListed(id) == Min({n \in 1..Len(Listed) : Listed[n].meeting_id = id})
SameMeeting(a, b) ==
    /\ a.meeting_id = b.meeting_id
    /\ a.committee_id = b.committee_id
    /\ a.numberdate = b.numberdate
    /\ a.name = b.name

\* C3: the meeting collection the orchestrator returns holds one record for
\* each meeting identifier of the committees' filtered lists and no other; the
\* record is the first occurrence in committee-list order, then feed order, and
\* carries that committee's id; the records stand in first-seen order.
C3_Dedup ==
    pc = "done" =>
        LET out == returned.val[1]
        IN  /\ {out[j].meeting_id : j \in 1..Len(out)} = ListedIds
            /\ \A j \in 1..Len(out) : \A h \in 1..Len(out) :
                  /\ j # h => out[j].meeting_id # out[h].meeting_id
                  /\ j < h => FirstListed(out[j].meeting_id) < FirstListed(out[h].meeting_id)
            /\ \A j \in 1..Len(out) :
                  SameMeeting(out[j], Listed[FirstListed(out[j].meeting_id)])

\* two different committees listed the same meeting, and the returned record
\* is the one of the committee that comes first in the list
C3_Witness ==
    /\ pc = "done"
    /\ Len(committee_ids) = 2 /\ committee_ids[1] # committee_ids[2]
    /\ \E a \in 1..Len(fetched[1]) : \E b \in 1..Len(fetched[2]) :
          /\ fetched[1][a].meeting_id = fetched[2][b].meeting_id
          /\ \E j \in 1..Len(returned.val[1]) :
                /\ returned.val[1][j].meeting_id = fetched[1][a].meeting_id
                /\ returned.val[1][j].committee_id = committee_ids[1]
    /\ Len(returned.val[1]) = 2

ScenarioA == <<[unique |-> Str("1"), numberdate |-> Str(D20240101), name |-> Str("Regular Meeting")]>>
ScenarioB ==
    ScenarioA \o <<[unique |-> Str("2"), numberdate |-> Str(D20240201), name |-> Str("Work Session")]>>
Scenario ==
    /\ committee_ids = <<"A", "B">>
    /\ site["A"] = ScenarioA
    /\ site["B"] = ScenarioB
    /\ date = Tuple(Str(D20240101), Str(D20240101))

\* C4: when the orchestrator returns, the agenda extractor was called once for
\* each record of the returned meeting collection, in its order and with that
\* record's (committee_id, meeting_id), and for no meeting twice or outside the
\* filtered lists; the agenda list is as long as the collection and its n-th
\* entry is the agenda of the n-th meeting. With committees [A, B], A listing
\* meeting 1 (20240101), B listing 1 and 2 (20240201) and the filter
\* (20240101, 20240101), the meetings are {1} and one agenda call is made.
C4_OneCallPerMeeting ==
    pc = "done" =>
        LET out == returned.val[1]
            ags == returned.val[2]
        IN  /\ Len(agenda_calls) = Len(out)
            /\ Len(ags) = Len(out)
            /\ \A n \in 1..Len(out) :
                  /\ agenda_calls[n] = <<out[n].committee_id, out[n].meeting_id>>
                  /\ ags[n].meeting_id = out[n].meeting_id
                  /\ out[n].meeting_id \in ListedIds
            /\ \A n \in 1..Len(agenda_calls) : \A m \in 1..Len(agenda_calls) :
                  n # m => agenda_calls[n][2] # agenda_calls[m][2]
            /\ Scenario =>
                  /\ [n \in 1..Len(out) |-> out[n].meeting_id] = <<Str("1")>>
                  /\ agenda_calls = <<<<"A", Str("1")>>>>

\* the end-to-end scenario ran to its end
C4_Witness == pc = "done" /\ Scenario /\ Len(agenda_calls) = 1

\* C5: an agenda call that raises is the last agenda call of the run: the
\* orchestrator is left by the exception, it returns neither the meeting
\* collection nor the agendas gathered so far, and no later meeting is tried.
C5_FailFast ==
    \A n \in 1..Len(agenda_raised) :
        agenda_raised[n] =>
            /\ n = Len(agenda_raised)
            /\ pc = "raised"
            /\ returned = None

\* the first of two meetings failed and the second was never tried
C5_Witness ==
    /\ pc = "raised"
    /\ agenda_raised = <<TRUE>>
    /\ Len(meetings) = 2
    /\ agenda_calls = <<<<meetings[1].committee_id, meetings[1].meeting_id>>>>

IsPrefix(p, q) == Len(p) <= Len(q) /\ \A n \in 1..Len(p) : p[n] = q[n]

\* C10: the fetcher calls made so far are the first entries of the committee
\* list, one call per entry, in list order, each with the date filter of the
\* run; an agenda call is made only when every entry has been fetched and every
\* fetch has returned, so no fetch follows an agenda call; the agenda calls
\* made so far follow the order of the deduplicated meeting collection; a run
\* that returns has made all of these calls.
C10_Sequential ==
    /\ IsPrefix(fetch_calls, [n \in 1..Len(committee_ids) |-> <<committee_ids[n], date>>])
    /\ agenda_calls # <<>> =>
          /\ Len(fetch_calls) = Len(committee_ids)
          /\ Len(fetched) = Len(committee_ids)
          /\ IsPrefix(agenda_calls,
                [n \in 1..Len(meetings) |-> <<meetings[n].committee_id, meetings[n].meeting_id>>])
    /\ pc = "done" =>
          /\ Len(fetch_calls) = Len(committee_ids)
          /\ Len(agenda_calls) = Len(meetings)

\* two committees were fetched and then two agendas extracted
C10_Witness ==
    /\ pc = "done"
    /\ Len(fetch_calls) = 2
    /\ Len(agenda_calls) = 2

====
